---------------------------- MODULE Spec2Model ----------------------------
(***************************************************************************)
(* Model of the ding-go client library: the facade (client.go), the API   *)
(* layer (internal/api/api.go), the status enumerations                   *)
(* (pkg/status/status.go) and the retrying HTTP client the API layer      *)
(* builds in api.New (hashicorp/go-retryablehttp v0.7.2, default policy). *)
(*                                                                         *)
(* One call is in flight at a time.  A call starts with one of the three  *)
(* ...WithContext operations (validation, request construction), then      *)
(* performs request attempts against an arbitrary server (RoundTrip), each *)
(* possibly followed by a backoff wait, and ends with the decoding of the  *)
(* final response and the normalisation of the error.  The caller's        *)
(* context may be cancelled while the call is in flight (ContextDone).     *)
(* The logger (log.go) is modelled by the lines its methods write to the   *)
(* two standard streams.                                                    *)
(***************************************************************************)
EXTENDS Integers, Sequences, FiniteSets, TLC

VARIABLES
    client,     \* the constructed Client (customerUUID, api fields) or NoClient
    newErr,     \* the error of the last NewClient call
    pc,         \* position of the call: "idle", "sending", "backoff", "done"
    call,       \* the operation in flight and its arguments
    req,        \* the HTTP request built by API.post
    attempt,    \* the loop index i of retryablehttp.Client.Do
    requests,   \* number of requests handed to the network during the call
    resp,       \* outcome of the last HTTPClient.Do (a response or a network error)
    apiRet,     \* what the API layer function returned
    result,     \* what the public operation returned
    config,     \* the Config the last NewClient call was given
    ctx,        \* ctx.Err() of the context of the call in flight
    stdout,     \* lines written to os.Stdout since the call in flight began
    stderr,     \* lines written to os.Stderr since the call in flight began
    logged,     \* the last direct call of a Logger method: the logger, the method
    other       \* the call of a second goroutine on the same client, while it is
                \* not the one taking a step

vars ==
    <<client, newErr, pc, call, req, attempt, requests, resp, apiRet, result,
      config, ctx, stdout, stderr, logged, other>>

\* a nil error or string pointer, and a nil pointer to a struct
Nil == "nil"
NilPtr == [isNil |-> TRUE]

-----------------------------------------------------------------------------
(* Error values *)

\* client.go: the eight exported error values
ErrUnauthorized == "ding.ErrUnauthorized"
ErrInternal == "ding.ErrInternal"
ErrInvalidPhoneNumber == "ding.ErrInvalidPhoneNumber"
ErrInvalidCustomerUUID == "ding.ErrInvalidCustomerUUID"
ErrNegativeBalance == "ding.ErrNegativeBalance"
ErrUnsupportedRegion == "ding.ErrUnsupportedRegion"
ErrInvalidAuthUUID == "ding.ErrInvalidAuthUUID"
ErrInvalidCallbackURL == "ding.ErrInvalidCallbackURL"

PublicErrors ==
    { ErrUnauthorized, ErrInternal, ErrInvalidPhoneNumber, ErrInvalidCustomerUUID,
      ErrNegativeBalance, ErrUnsupportedRegion, ErrInvalidAuthUUID,
      ErrInvalidCallbackURL }

\* internal/api/api.go: the two API-layer error values
apiErrInternal == "api.ErrInternal"
apiErrUnauthorized == "api.ErrUnauthorized"

\* internal/api/api.go: the error codes the API layer names
ErrorCodeInternalServer == "internal_server_error"
ErrorCodeBadRequest == "bad_request"
ErrorCodeInvalidPhoneNumber == "invalid_phone_number"
ErrorCodeAccountInvalid == "account_invalid"
ErrorCodeNegativeBalance == "negative_balance"
ErrorCodeInvalidLine == "invalid_line"
ErrorCodeUnsupportedRegion == "unsupported_region"
ErrorCodeInvalidAuthUUID == "invalid_auth_uuid"

KnownErrorCodes ==
    { ErrorCodeInternalServer, ErrorCodeBadRequest, ErrorCodeInvalidPhoneNumber,
      ErrorCodeAccountInvalid, ErrorCodeNegativeBalance, ErrorCodeInvalidLine,
      ErrorCodeUnsupportedRegion, ErrorCodeInvalidAuthUUID }

StatusOK == 200
StatusForbidden == 403

apiBaseURL == "https://api.ding.live/v1"
APIKeyHeader == "x-api-key"

-----------------------------------------------------------------------------
(* Input validation: client.go isValidNumber, isValidUUID, isValidURL.     *)
(* The three parsers are library calls; each is modelled by its verdict on *)
(* the sample strings the model draws its inputs from.                     *)

PhoneSamples ==
    { "+14155552671", "+33612345678", "+1415555", "4155552671",
      "invalid_phone_number", "" }

\* phonenumbers.Parse(s, "ZZ"): without a default region only a number in
\* international format (leading +, known country code) parses.
phonenumbersParse(s) ==
    CASE s \in {"+14155552671", "+33612345678", "+1415555"} ->
            [err |-> Nil, num |-> s]
      [] s = "4155552671" -> [err |-> "invalid country code", num |-> Nil]
      [] OTHER -> [err |-> "the phone number supplied is not a number", num |-> Nil]

\* phonenumbers.IsValidNumber(num): length and pattern of the national number
phonenumbersIsValidNumber(num) == num \in {"+14155552671", "+33612345678"}

\* isValidNumber without its IsValidNumber step: whatever parses is accepted
isValidNumber_ParseOnly(phoneNumber) ==
    phonenumbersParse(phoneNumber).err = Nil

isValidNumber(phoneNumber) ==
    LET p == phonenumbersParse(phoneNumber)
    IN  IF p.err # Nil THEN FALSE
        ELSE IF ~phonenumbersIsValidNumber(p.num) THEN FALSE
        ELSE TRUE

UUIDSamples ==
    { "f0b399ce-eead-4781-bab5-f63240e81a52",
      "urn:uuid:5071dbf5-78d0-497a-b844-c1231808c3e9",
      "f0b399ce-eead-4781-bab5-f63240e81a5g",
      "invalid_uuid", "" }

\* uuid.Parse(s): the 36 character form, and the urn:uuid:, braced and
\* undashed forms, of hexadecimal digits
uuidParse(s) ==
    CASE s \in { "f0b399ce-eead-4781-bab5-f63240e81a52",
                 "urn:uuid:5071dbf5-78d0-497a-b844-c1231808c3e9" } -> Nil
      [] s = "f0b399ce-eead-4781-bab5-f63240e81a5g" -> "invalid UUID format"
      [] OTHER -> "invalid UUID length"

\* isValidUUID as a test for the empty string only
isValidUUID_NonEmpty(customerUUID) == customerUUID # ""

isValidUUID(customerUUID) ==
    IF uuidParse(customerUUID) # Nil THEN FALSE ELSE TRUE

URLSamples == { "https://example.com/callback", "/callback", "invalid_callback_url", "" }

\* url.ParseRequestURI(u): an absolute URI or an absolute path
urlParseRequestURI(u) ==
    CASE u \in {"https://example.com/callback", "/callback"} -> Nil
      [] u = "" -> "empty url"
      [] OTHER -> "invalid URI for request"

isValidURL(u) ==
    IF urlParseRequestURI(u) # Nil THEN FALSE ELSE TRUE

-----------------------------------------------------------------------------
(* Status enumerations: pkg/status/status.go *)

CheckUnknown == "unknown"
AuthUnknown == "unknown"
RetryUnknown == "unknown"

CheckRecognized ==
    { "valid", "invalid", "without_attempt", "rate_limited", "already_validated",
      "expired_auth" }
AuthRecognized ==
    { "pending", "rate_limited", "spam_detected", "approved", "canceled", "expired" }
RetryRecognized ==
    { "approved", "denied", "no_attempt", "rate_limited", "expired_auth",
      "already_validated" }

(* A JSON value is [t |-> type, v |-> value]; the raw bytes a field's        *)
(* UnmarshalJSON receives are such a value.  Absent marks a key the object   *)
(* does not hold.  (A number keeps its value in n, an object its fields in   *)
(* f, so that values of different JSON types are records of different shape.)*)
JString(s) == [t |-> "string", v |-> s]
JNumber(n) == [t |-> "number", n |-> n]
JNull == [t |-> "null", v |-> ""]
Absent == [t |-> "absent", v |-> ""]

\* json.Unmarshal(b, &res) with res a string: a JSON string sets it, null
\* leaves it "", anything else is an error
unmarshalString(b) ==
    CASE b.t = "string" -> [err |-> FALSE, v |-> b.v]
      [] b.t = "null" -> [err |-> FALSE, v |-> ""]
      [] OTHER -> [err |-> TRUE, v |-> ""]

\* Check.UnmarshalJSON failing on a value it does not recognize
CheckUnmarshalJSON_Strict(b) ==
    LET res == unmarshalString(b)
    IN  IF res.err THEN [err |-> TRUE, v |-> ""]
        ELSE IF res.v \in CheckRecognized THEN [err |-> FALSE, v |-> res.v]
        ELSE [err |-> TRUE, v |-> ""]

CheckUnmarshalJSON(b) ==
    LET res == unmarshalString(b)
    IN  IF res.err THEN [err |-> TRUE, v |-> ""]
        ELSE IF res.v \in CheckRecognized THEN [err |-> FALSE, v |-> res.v]
        ELSE [err |-> FALSE, v |-> CheckUnknown]

AuthUnmarshalJSON(b) ==
    LET res == unmarshalString(b)
    IN  IF res.err THEN [err |-> TRUE, v |-> ""]
        ELSE IF res.v \in AuthRecognized THEN [err |-> FALSE, v |-> res.v]
        ELSE [err |-> FALSE, v |-> AuthUnknown]

RetryUnmarshalJSON(b) ==
    LET res == unmarshalString(b)
    IN  IF res.err THEN [err |-> TRUE, v |-> ""]
        ELSE IF res.v \in RetryRecognized THEN [err |-> FALSE, v |-> res.v]
        ELSE [err |-> FALSE, v |-> RetryUnknown]

-----------------------------------------------------------------------------
(* Response bodies and encoding/json decoding: internal/api/api.go         *)

Keys ==
    { "authentication_uuid", "status", "created_at", "expires_at", "next_retry_at",
      "remaining_retry", "code", "message", "doc_url" }

\* a JSON object: the value of every key of Keys, Absent where it has none
Object(r) == [t |-> "object", f |-> [k \in Keys |-> IF k \in DOMAIN r THEN r[k] ELSE Absent]]
JArray == [t |-> "array", v |-> ""]

(* A body is the first thing the bytes hold (doc: nothing at all, bytes     *)
(* that are no JSON value, or a JSON value) and whether more bytes follow   *)
(* that value (trailing).                                                    *)
NoBytes == [t |-> "none", v |-> ""]
NotJSON == [t |-> "invalid", v |-> "this is not json"]
Body(doc) == [doc |-> doc, trailing |-> FALSE]
BodyWithTrailingBytes(doc) == [doc |-> doc, trailing |-> TRUE]

\* time.Time: the instant, to the nanosecond
ZeroTime == [wall |-> "0001-01-01T00:00:00Z", nsec |-> 0]

\* time.Time.UnmarshalJSON on a JSON string: RFC 3339 with an optional
\* fraction of up to nine digits
timeParseRFC3339(s) ==
    CASE s = "2024-05-01T10:00:00Z" ->
            [err |-> FALSE, v |-> [wall |-> "2024-05-01T10:00:00Z", nsec |-> 0]]
      [] s = "2024-05-01T10:05:00.123456789Z" ->
            [err |-> FALSE, v |-> [wall |-> "2024-05-01T10:05:00Z", nsec |-> 123456789]]
      [] OTHER -> [err |-> TRUE, v |-> ZeroTime]

\* decoding of one struct field by its Go type; an absent key leaves the
\* field at its zero value and calls no UnmarshalJSON
fieldString(j) ==
    CASE j.t \in {"absent", "null"} -> [err |-> FALSE, v |-> ""]
      [] j.t = "string" -> [err |-> FALSE, v |-> j.v]
      [] OTHER -> [err |-> TRUE, v |-> ""]

fieldInt(j) ==
    CASE j.t \in {"absent", "null"} -> [err |-> FALSE, v |-> 0]
      [] j.t = "number" -> [err |-> FALSE, v |-> j.n]
      [] OTHER -> [err |-> TRUE, v |-> 0]

fieldTime(j) ==
    CASE j.t \in {"absent", "null"} -> [err |-> FALSE, v |-> ZeroTime]
      [] j.t = "string" -> timeParseRFC3339(j.v)
      [] OTHER -> [err |-> TRUE, v |-> ZeroTime]

fieldAuthStatus(j) ==
    IF j.t = "absent" THEN [err |-> FALSE, v |-> ""] ELSE AuthUnmarshalJSON(j)

fieldCheckStatus(j) ==
    IF j.t = "absent" THEN [err |-> FALSE, v |-> ""] ELSE CheckUnmarshalJSON(j)

fieldRetryStatus(j) ==
    IF j.t = "absent" THEN [err |-> FALSE, v |-> ""] ELSE RetryUnmarshalJSON(j)

\* ErrorCode is a plain string type: it has no UnmarshalJSON
fieldErrorCode(j) == fieldString(j)

(* json.NewDecoder(res.Body).Decode(&resp) reads the first JSON value of    *)
(* the stream and leaves what follows it unread.  structValue(body) is what *)
(* a struct is decoded from: an object's fields, nothing for null, and an   *)
(* error for no value, a malformed value or a value of another type.        *)
structValue(body) ==
    CASE body.doc.t = "object" -> [err |-> FALSE, f |-> body.doc.f]
      [] body.doc.t = "null" -> [err |-> FALSE, f |-> [k \in Keys |-> Absent]]
      [] OTHER -> [err |-> TRUE, f |-> [k \in Keys |-> Absent]]

\* the decoding of ErrorResponse with a json tag for DocURL that no payload
\* carries
DecodeErrorResponse_NoDocURL(body) ==
    LET s == structValue(body)
        code == fieldErrorCode(s.f["code"])
        message == fieldString(s.f["message"])
    IN  [err |-> s.err \/ code.err \/ message.err,
         v |-> [Code |-> code.v, Message |-> message.v, DocURL |-> ""]]

DecodeErrorResponse(body) ==
    LET s == structValue(body)
        code == fieldErrorCode(s.f["code"])
        message == fieldString(s.f["message"])
        docURL == fieldString(s.f["doc_url"])
    IN  [err |-> s.err \/ code.err \/ message.err \/ docURL.err,
         v |-> [Code |-> code.v, Message |-> message.v, DocURL |-> docURL.v]]

DecodeAuthSuccessResponse(body) ==
    LET s == structValue(body)
        id == fieldString(s.f["authentication_uuid"])
        st == fieldAuthStatus(s.f["status"])
        createdAt == fieldTime(s.f["created_at"])
        expiresAt == fieldTime(s.f["expires_at"])
    IN  [err |-> s.err \/ id.err \/ st.err \/ createdAt.err \/ expiresAt.err,
         v |-> [AuthenticationUUID |-> id.v, Status |-> st.v,
                CreatedAt |-> createdAt.v, ExpiresAt |-> expiresAt.v]]

DecodeCheckSuccessResponse(body) ==
    LET s == structValue(body)
        id == fieldString(s.f["authentication_uuid"])
        st == fieldCheckStatus(s.f["status"])
    IN  [err |-> s.err \/ id.err \/ st.err,
         v |-> [AuthenticationUUID |-> id.v, Status |-> st.v]]

DecodeRetrySuccessResponse(body) ==
    LET s == structValue(body)
        id == fieldString(s.f["authentication_uuid"])
        st == fieldRetryStatus(s.f["status"])
        createdAt == fieldTime(s.f["created_at"])
        nextRetryAt == fieldTime(s.f["next_retry_at"])
        remaining == fieldInt(s.f["remaining_retry"])
    IN  [err |-> s.err \/ id.err \/ st.err \/ createdAt.err \/ nextRetryAt.err
                    \/ remaining.err,
         v |-> [AuthenticationUUID |-> id.v, Status |-> st.v,
                CreatedAt |-> createdAt.v, NextRetryAt |-> nextRetryAt.v,
                RemainingRetry |-> remaining.v]]

-----------------------------------------------------------------------------
(* The server: what one request attempt can come back with.                *)

SampleUUID == "5071dbf5-78d0-497a-b844-c1231808c3e9"
T1 == "2024-05-01T10:00:00Z"
T2 == "2024-05-01T10:05:00.123456789Z"

\* status strings a server may send: recognized by some, all or none of the
\* three enumerations
StatusSamples ==
    { "pending", "valid", "approved", "rate_limited", "unknown",
      "--------------------------------", "" }

\* error codes a server may send: the known ones, an unrecognized one, the
\* empty one
CodeSamples == KnownErrorCodes \cup { "brand_new_code", "" }

AuthSuccessBody(st) ==
    Object([authentication_uuid |-> JString(SampleUUID), status |-> st,
            created_at |-> JString(T1), expires_at |-> JString(T2)])

CheckSuccessBody(st) ==
    Object([authentication_uuid |-> JString(SampleUUID), status |-> st])

RetrySuccessBody(st) ==
    Object([authentication_uuid |-> JString(SampleUUID), status |-> st,
            created_at |-> JString(T1), next_retry_at |-> JString(T2),
            remaining_retry |-> JNumber(2)])

ErrorBody(code) ==
    Object([code |-> code, message |-> JString("request rejected"),
            doc_url |-> JString("https://docs.example.com/api/error-handling")])

GatewayErrorMessage == Object([message |-> JString("Forbidden")])

\* bodies of the success shape of some endpoint, every field well typed
SuccessDocs ==
    { AuthSuccessBody(JString(st)) : st \in StatusSamples }
        \cup { CheckSuccessBody(JString(st)) : st \in StatusSamples }
        \cup { RetrySuccessBody(JString(st)) : st \in StatusSamples }
        \cup { AuthSuccessBody(JNull), CheckSuccessBody(JNull), RetrySuccessBody(JNull) }

\* bodies of the error shape {code, message, doc_url}
ErrorDocs == { ErrorBody(JString(c)) : c \in CodeSamples }

\* valid JSON of neither shape, or of a shape with an ill-typed field
OtherDocs ==
    { Object(<<>>), JArray, JNull, JString("Forbidden"), GatewayErrorMessage,
      Object([message |-> JString("request rejected"),
              doc_url |-> JString("https://docs.example.com/api/error-handling")]),
      ErrorBody(JNumber(7)), ErrorBody(JNull),
      AuthSuccessBody(JNumber(7)), CheckSuccessBody(JNumber(7)),
      Object([authentication_uuid |-> JString(SampleUUID), status |-> JString("pending"),
              created_at |-> JString("yesterday"), expires_at |-> JString(T2)]),
      Object([authentication_uuid |-> JString(SampleUUID), status |-> JString("approved"),
              created_at |-> JString(T1), next_retry_at |-> JString(T2),
              remaining_retry |-> JString("two")]) }

Bodies ==
    { Body(d) : d \in SuccessDocs \cup ErrorDocs \cup OtherDocs \cup {NoBytes, NotJSON} }
        \cup { BodyWithTrailingBytes(d) :
                 d \in { AuthSuccessBody(JString("pending")),
                         CheckSuccessBody(JString("valid")),
                         RetrySuccessBody(JString("approved")),
                         ErrorBody(JString(ErrorCodeNegativeBalance)) } }

StatusCodes == { 200, 201, 400, 403, 404, 429, 500, 501, 503 }

\* the outcome of one HTTPClient.Do: a response, or a network error
Response(code, body) == [kind |-> "response", StatusCode |-> code, Body |-> body, err |-> Nil]
NetworkError(e) == [kind |-> "error", StatusCode |-> 0, Body |-> Body(NoBytes), err |-> e]
NoResponse == [kind |-> "none", StatusCode |-> 0, Body |-> Body(NoBytes), err |-> Nil]

Outcomes ==
    { Response(c, b) : c \in StatusCodes, b \in Bodies }
        \cup { NetworkError("connection refused"),
               NetworkError("x509: certificate signed by unknown authority") }

\* ctx.Err() of a context that is done
ContextErrors == { "context canceled", "context deadline exceeded" }

\* responses that may still come back while the context is being cancelled
RacedResponses ==
    { Response(200, Body(AuthSuccessBody(JString("pending")))),
      Response(200, Body(CheckSuccessBody(JString("valid")))),
      Response(200, Body(RetrySuccessBody(JString("approved")))),
      Response(403, Body(GatewayErrorMessage)),
      Response(503, Body(NoBytes)) }

\* what HTTPClient.Do can come back with for a request in flight: under a
\* live context any outcome; once the context is done the request is
\* aborted with the context's error, unless a response got in first
OutcomesUnder(ctxErr) ==
    IF ctxErr = Nil THEN Outcomes
    ELSE { NetworkError(ctxErr) } \cup RacedResponses

-----------------------------------------------------------------------------
(* Logging: log.go.  A stream is the sequence of the lines written to it,  *)
(* each line standing by the prefix its method prints.                     *)

LevelDebug == 0
LevelInfo == 1
LevelWarn == 2
LevelError == 3
LevelNull == 4
Levels == { LevelDebug, LevelInfo, LevelWarn, LevelError, LevelNull }

\* a LeveledLogger: nil, a *Logger of log.go, or an implementation of the
\* caller's (which writes where the caller pleases, not to the two streams)
NilLogger == [kind |-> "nil", Level |-> 0]
Logger(level) == [kind |-> "ding.Logger", Level |-> level]
CustomLogger == [kind |-> "custom", Level |-> 0]

DefaultLeveledLogger == Logger(LevelError)

NoOutput == [stdout |-> <<>>, stderr |-> <<>>]

\* the four methods of *Logger: the streams s after the call
Debugf(l, s) ==
    IF l.kind = "ding.Logger" /\ l.Level >= LevelDebug
    THEN [s EXCEPT !.stdout = Append(@, "[DEBUG]")]
    ELSE s

Errorf(l, s) ==
    IF l.kind = "ding.Logger" /\ l.Level >= LevelError
    THEN [s EXCEPT !.stderr = Append(@, "[ERROR]")]
    ELSE s

Infof(l, s) ==
    IF l.kind = "ding.Logger" /\ l.Level >= LevelInfo
    THEN [s EXCEPT !.stdout = Append(@, "[INFO]")]
    ELSE s

Warnf(l, s) ==
    IF l.kind = "ding.Logger" /\ l.Level >= LevelWarn
    THEN [s EXCEPT !.stderr = Append(@, "[WARN]")]
    ELSE s

-----------------------------------------------------------------------------
(* Transport: api.New builds a retryablehttp client with its default retry *)
(* policy and backoff; API.post hands it the request.                      *)

\* optional.go: Int (here IntPtr) and String; a nil pointer is the unset value
NilInt == [set |-> FALSE, v |-> 0]
IntPtr(i) == [set |-> TRUE, v |-> i]
NilString == [set |-> FALSE, v |-> ""]
String(str) == [set |-> TRUE, v |-> str]

\* a *bool: nil, or the address of a bool
NilBool == [set |-> FALSE, b |-> FALSE]
BoolPtr(b) == [set |-> TRUE, b |-> b]

\* json.Marshal of the request structs (api.go:87-112).  A key the encoder
\* leaves out of the object is Omitted.
JBool(b) == [t |-> "bool", b |-> b]
Omitted == [t |-> "omitted", v |-> ""]

\* a string field tagged omitempty: left out when it is the empty string
marshalStringOmitEmpty(str) == IF str = "" THEN Omitted ELSE JString(str)

\* a *string field tagged omitempty: left out when the pointer is nil
marshalStringPtrOmitEmpty(ptr) == IF ptr.set THEN JString(ptr.v) ELSE Omitted

\* a *bool field tagged omitempty: left out when the pointer is nil
marshalBoolPtrOmitEmpty(ptr) == IF ptr.set THEN JBool(ptr.b) ELSE Omitted

jsonMarshal(payload) ==
    IF "PhoneNumber" \in DOMAIN payload
    THEN [phone_number |-> marshalStringOmitEmpty(payload.PhoneNumber),
          customer_uuid |-> marshalStringOmitEmpty(payload.CustomerUUID),
          ip |-> marshalStringPtrOmitEmpty(payload.IP),
          device_id |-> marshalStringPtrOmitEmpty(payload.DeviceID),
          device_type |-> marshalStringPtrOmitEmpty(payload.DeviceType),
          app_version |-> marshalStringPtrOmitEmpty(payload.AppVersion),
          callback_url |-> marshalStringPtrOmitEmpty(payload.CallbackURL),
          is_returning_user |-> marshalBoolPtrOmitEmpty(payload.IsReturningUser)]
    ELSE IF "CheckCode" \in DOMAIN payload
    THEN [customer_uuid |-> JString(payload.CustomerUUID),
          authentication_uuid |-> JString(payload.AuthenticationUUID),
          check_code |-> JString(payload.CheckCode)]
    ELSE [customer_uuid |-> JString(payload.CustomerUUID),
          authentication_uuid |-> JString(payload.AuthenticationUUID)]

\* retryablehttp.NewClient(): RetryMax of a client nobody configured
defaultRetryMax == 4

\* largest MaxNetworkRetries a configuration of the model sets
MaxRetriesSet == 2

\* a *http.Client the caller supplies, or nil
NilHTTPClient == [set |-> FALSE]
HTTPClient == [set |-> TRUE]

\* api.New: the fields of the API value and of the retrying client under
\* it, and the error
New(cfg) ==
    LET a == [baseURL |-> cfg.BaseURL,
              apiKey |-> cfg.APIKey,
              RetryMax |-> IF cfg.MaxNetworkRetries.set THEN cfg.MaxNetworkRetries.v
                           ELSE defaultRetryMax,
              HTTPClient |-> IF cfg.CustomHTTPClient.set THEN "custom" ELSE "default",
              leveledLogger |-> cfg.LeveledLogger]
    IN  IF a.leveledLogger = NilLogger
        THEN [api |-> NilPtr, err |-> "missing logger"]
        ELSE [api |-> a, err |-> Nil]

\* the policy retrying every status from 400 on
DefaultRetryPolicy_RetriesClientErrors(ctxErr, o) ==
    IF ctxErr # Nil THEN [retry |-> FALSE, err |-> ctxErr]
    ELSE IF o.kind = "error" THEN
        IF o.err = "x509: certificate signed by unknown authority"
        THEN [retry |-> FALSE, err |-> o.err]
        ELSE [retry |-> TRUE, err |-> Nil]
    ELSE IF o.StatusCode = 0 \/ (o.StatusCode >= 400 /\ o.StatusCode # 501)
        THEN [retry |-> TRUE, err |-> "unexpected HTTP status"]
    ELSE [retry |-> FALSE, err |-> Nil]

\* the policy without its test of the context
DefaultRetryPolicy_IgnoresContext(ctxErr, o) ==
    IF o.kind = "error" THEN
        IF o.err = "x509: certificate signed by unknown authority"
        THEN [retry |-> FALSE, err |-> o.err]
        ELSE [retry |-> TRUE, err |-> Nil]
    ELSE IF o.StatusCode = 429 THEN [retry |-> TRUE, err |-> Nil]
    ELSE IF o.StatusCode = 0 \/ (o.StatusCode >= 500 /\ o.StatusCode # 501)
        THEN [retry |-> TRUE, err |-> "unexpected HTTP status"]
    ELSE [retry |-> FALSE, err |-> Nil]

\* retryablehttp.DefaultRetryPolicy: whether the attempt is to be retried,
\* and the error it reports for the attempt
DefaultRetryPolicy(ctxErr, o) ==
    IF ctxErr # Nil THEN [retry |-> FALSE, err |-> ctxErr]
    ELSE IF o.kind = "error" THEN
        IF o.err = "x509: certificate signed by unknown authority"
        THEN [retry |-> FALSE, err |-> o.err]
        ELSE [retry |-> TRUE, err |-> Nil]
    ELSE IF o.StatusCode = 429 THEN [retry |-> TRUE, err |-> Nil]
    ELSE IF o.StatusCode = 0 \/ (o.StatusCode >= 500 /\ o.StatusCode # 501)
        THEN [retry |-> TRUE, err |-> "unexpected HTTP status"]
    ELSE [retry |-> FALSE, err |-> Nil]

\* Client.Do handing the last response over when the retries are used up
doReturn_HandsOverLastResponse(o, chk) ==
    IF o.kind = "response" /\ (chk.retry \/ chk.err = Nil)
    THEN [res |-> o, err |-> Nil]
    ELSE [res |-> NoResponse, err |-> "giving up after attempt(s)"]

\* retryablehttp.Client.Do after its loop: the response is handed over only
\* if the last attempt succeeded and is not to be retried; otherwise the
\* body is drained and an error returned
doReturn(o, chk) ==
    IF o.kind = "response" /\ chk.err = Nil /\ ~chk.retry
    THEN [res |-> o, err |-> Nil]
    ELSE [res |-> NoResponse, err |-> "giving up after attempt(s)"]

\* API.post, from the return of a.hc.Do on
post(do) ==
    IF do.err # Nil THEN [res |-> NoResponse, err |-> apiErrInternal]
    ELSE [res |-> do.res, err |-> Nil]

\* API.post sending every request to the authentication endpoint
postRequest_OnePath(api, url, payload) ==
    [method |-> "POST",
     url |-> api.baseURL \o "/" \o "authentication",
     apiKeyHeader |-> api.apiKey,
     contentType |-> "application/json",
     path |-> "authentication",
     payload |-> payload,
     body |-> jsonMarshal(payload)]

\* API.post, up to a.hc.Do: the request built for a path and a payload
postRequest(api, url, payload) ==
    [method |-> "POST",
     url |-> api.baseURL \o "/" \o url,
     apiKeyHeader |-> api.apiKey,
     contentType |-> "application/json",
     path |-> url,
     payload |-> payload,
     body |-> jsonMarshal(payload)]

NoRequest == [isNil |-> TRUE]

-----------------------------------------------------------------------------
(* API layer: API.Authentication, API.Check, API.Retry, from the return of *)
(* API.post on.  Each returns (response, error); the response holds Error  *)
(* or Success.                                                              *)

NoError == [isNil |-> TRUE]
NoSuccess == [isNil |-> TRUE]
apiFail(e) == [res |-> NilPtr, err |-> e]
\* the API layer has not been called
NoAPIReturn == [res |-> NilPtr, err |-> Nil]
apiError(r) == [res |-> [Error |-> r, Success |-> NoSuccess], err |-> Nil]
apiSuccess(r) == [res |-> [Error |-> NoError, Success |-> r], err |-> Nil]

API_Authentication(p) ==
    IF p.err # Nil THEN apiFail(apiErrInternal)
    ELSE IF p.res.StatusCode # StatusOK THEN
        IF p.res.StatusCode = StatusForbidden THEN apiFail(apiErrUnauthorized)
        ELSE LET d == DecodeErrorResponse(p.res.Body)
             IN  IF d.err THEN apiFail(apiErrInternal) ELSE apiError(d.v)
    ELSE LET d == DecodeAuthSuccessResponse(p.res.Body)
         IN  IF d.err THEN apiFail(apiErrInternal) ELSE apiSuccess(d.v)

\* API.Check decoding the error payload before it looks for StatusForbidden
API_Check_DecodeBeforeForbidden(p) ==
    IF p.err # Nil THEN apiFail(apiErrInternal)
    ELSE IF p.res.StatusCode # StatusOK THEN
        LET d == DecodeErrorResponse(p.res.Body)
        IN  IF ~d.err THEN apiError(d.v)
            ELSE IF p.res.StatusCode = StatusForbidden THEN apiFail(apiErrUnauthorized)
            ELSE apiFail(apiErrInternal)
    ELSE LET d == DecodeCheckSuccessResponse(p.res.Body)
         IN  IF d.err THEN apiFail(apiErrInternal) ELSE apiSuccess(d.v)

API_Check(p) ==
    IF p.err # Nil THEN apiFail(apiErrInternal)
    ELSE IF p.res.StatusCode # StatusOK THEN
        IF p.res.StatusCode = StatusForbidden THEN apiFail(apiErrUnauthorized)
        ELSE LET d == DecodeErrorResponse(p.res.Body)
             IN  IF d.err THEN apiFail(apiErrInternal) ELSE apiError(d.v)
    ELSE LET d == DecodeCheckSuccessResponse(p.res.Body)
         IN  IF d.err THEN apiFail(apiErrInternal) ELSE apiSuccess(d.v)

API_Retry(p) ==
    IF p.err # Nil THEN apiFail(apiErrInternal)
    ELSE IF p.res.StatusCode # StatusOK THEN
        IF p.res.StatusCode = StatusForbidden THEN apiFail(apiErrUnauthorized)
        ELSE LET d == DecodeErrorResponse(p.res.Body)
             IN  IF d.err THEN apiFail(apiErrInternal) ELSE apiError(d.v)
    ELSE LET d == DecodeRetrySuccessResponse(p.res.Body)
         IN  IF d.err THEN apiFail(apiErrInternal) ELSE apiSuccess(d.v)

-----------------------------------------------------------------------------
(* Error normalisation: client.go apiErrToErr, apiErrorCodeToErr *)

\* apiErrToErr handing an error it does not know through to the caller
apiErrToErr_PassThrough(err) ==
    CASE err = apiErrUnauthorized -> ErrUnauthorized
      [] OTHER -> err

apiErrToErr(err) ==
    CASE err = apiErrUnauthorized -> ErrUnauthorized
      [] OTHER -> ErrInternal

\* apiErrorCodeToErr without its case for ErrorCodeInvalidAuthUUID
apiErrorCodeToErr_NoAuthUUIDCase(code) ==
    CASE code = ErrorCodeInvalidPhoneNumber -> ErrInvalidPhoneNumber
      [] code = ErrorCodeAccountInvalid -> ErrInvalidCustomerUUID
      [] code = ErrorCodeNegativeBalance -> ErrNegativeBalance
      [] code = ErrorCodeInvalidLine -> ErrInvalidPhoneNumber
      [] code = ErrorCodeUnsupportedRegion -> ErrUnsupportedRegion
      [] OTHER -> ErrInternal

apiErrorCodeToErr(code) ==
    CASE code = ErrorCodeInvalidPhoneNumber -> ErrInvalidPhoneNumber
      [] code = ErrorCodeAccountInvalid -> ErrInvalidCustomerUUID
      [] code = ErrorCodeNegativeBalance -> ErrNegativeBalance
      [] code = ErrorCodeInvalidLine -> ErrInvalidPhoneNumber
      [] code = ErrorCodeUnsupportedRegion -> ErrUnsupportedRegion
      [] code = ErrorCodeInvalidAuthUUID -> ErrInvalidAuthUUID
      [] OTHER -> ErrInternal

-----------------------------------------------------------------------------
(* Facade: client.go *)

\* loggers a configuration sets, besides none
LoggerSamples == { Logger(LevelWarn), Logger(LevelNull), CustomLogger }

\* configurations NewClient is given: every customer UUID and API key
\* without retries, every retry setting for one of them, and for a valid
\* and an invalid customer UUID a custom HTTP client and every logger
Configs ==
    [CustomerUUID : UUIDSamples,
     APIKey : {"valid_api_key", ""},
     MaxNetworkRetries : {IntPtr(0)},
     CustomHTTPClient : {NilHTTPClient},
     LeveledLogger : {NilLogger}]
        \cup [CustomerUUID : {"f0b399ce-eead-4781-bab5-f63240e81a52"},
              APIKey : {"valid_api_key"},
              MaxNetworkRetries : {NilInt} \cup {IntPtr(n) : n \in 0..MaxRetriesSet},
              CustomHTTPClient : {NilHTTPClient},
              LeveledLogger : {NilLogger}]
        \cup [CustomerUUID : {"f0b399ce-eead-4781-bab5-f63240e81a52", "invalid_uuid"},
              APIKey : {"valid_api_key"},
              MaxNetworkRetries : {IntPtr(0)},
              CustomHTTPClient : {HTTPClient},
              LeveledLogger : {NilLogger}]
        \cup [CustomerUUID : {"f0b399ce-eead-4781-bab5-f63240e81a52", "invalid_uuid"},
              APIKey : {""},
              MaxNetworkRetries : {IntPtr(0)},
              CustomHTTPClient : {NilHTTPClient},
              LeveledLogger : LoggerSamples]

NoConfig ==
    [CustomerUUID |-> "", APIKey |-> "", MaxNetworkRetries |-> NilInt,
     CustomHTTPClient |-> NilHTTPClient, LeveledLogger |-> NilLogger]

\* AuthenticateOptions with a phone number, a callback URL or none, and the
\* other fields left at their zero values
Options(phone, callbackURL) ==
    [PhoneNumber |-> phone, IP |-> NilString, DeviceID |-> NilString,
     DeviceType |-> NilString, AppVersion |-> NilString,
     CallbackURL |-> callbackURL, IsReturningUser |-> FALSE]

\* AuthenticateOptions with every optional field set, and with an optional
\* field set to the empty string
OptionalsSamples ==
    { [PhoneNumber |-> "+14155552671", IP |-> String("192.168.0.1"),
       DeviceID |-> String("device-1"), DeviceType |-> String("IOS"),
       AppVersion |-> String("1.0.0"),
       CallbackURL |-> String("https://example.com/callback"),
       IsReturningUser |-> TRUE],
      [PhoneNumber |-> "+14155552671", IP |-> String(""),
       DeviceID |-> NilString, DeviceType |-> NilString,
       AppVersion |-> NilString, CallbackURL |-> NilString,
       IsReturningUser |-> FALSE] }

AuthenticateOptionsSet ==
    { Options(p, u) : p \in PhoneSamples,
                      u \in {NilString} \cup {String(v) : v \in URLSamples} }
        \cup OptionalsSamples

CheckCodes == {"3588", ""}

NoOptions == Options("", NilString)
NoCall == [op |-> "none", opt |-> NoOptions, authUUID |-> "", code |-> ""]
NoResult == [res |-> NilPtr, err |-> Nil]
NoLogged == [logger |-> NilLogger, method |-> "none", before |-> NoOutput]

\* the local state of a goroutine that is in no call
NoOther ==
    [pc |-> "idle", call |-> NoCall, req |-> NoRequest, attempt |-> 0,
     requests |-> 0, resp |-> NoResponse, apiRet |-> NoAPIReturn,
     result |-> NoResult, ctx |-> Nil, stdout |-> <<>>, stderr |-> <<>>]

\* the validation of the options with the callback URL checked first
authenticateValidate_URLFirst(opt) ==
    IF opt.CallbackURL.set /\ ~isValidURL(opt.CallbackURL.v) THEN ErrInvalidCallbackURL
    ELSE IF ~isValidNumber(opt.PhoneNumber) THEN ErrInvalidPhoneNumber
    ELSE Nil

\* AuthenticateWithContext, the validation of its options: the error it
\* returns before any request is built, or Nil
authenticateValidate(opt) ==
    IF ~isValidNumber(opt.PhoneNumber) THEN ErrInvalidPhoneNumber
    ELSE IF opt.CallbackURL.set /\ ~isValidURL(opt.CallbackURL.v) THEN ErrInvalidCallbackURL
    ELSE Nil

\* the validation of authUUID as a test for the empty string only
authUUIDValidate_NonEmpty(authUUID) ==
    IF authUUID = "" THEN ErrInvalidAuthUUID ELSE Nil

\* CheckWithContext and RetryWithContext, the validation of authUUID
authUUIDValidate(authUUID) ==
    IF ~isValidUUID(authUUID) THEN ErrInvalidAuthUUID ELSE Nil

\* the request structs the facade fills in
AuthRequest(c, opt) ==
    [PhoneNumber |-> opt.PhoneNumber,
     CustomerUUID |-> c.customerUUID,
     IP |-> opt.IP,
     DeviceID |-> opt.DeviceID,
     DeviceType |-> opt.DeviceType,
     AppVersion |-> opt.AppVersion,
     CallbackURL |-> opt.CallbackURL,
     IsReturningUser |-> BoolPtr(opt.IsReturningUser)]

CheckRequest(c, authUUID, code) ==
    [CustomerUUID |-> c.customerUUID, AuthenticationUUID |-> authUUID, CheckCode |-> code]

RetryRequest(c, authUUID) ==
    [CustomerUUID |-> c.customerUUID, AuthenticationUUID |-> authUUID]

\* AuthenticateWithContext stamping the result with the client's clock
\* instead of the server's created_at
authenticateReturn_ClientClock(a) ==
    IF a.err # Nil THEN [res |-> NilPtr, err |-> apiErrToErr(a.err)]
    ELSE IF a.res.Error # NoError
        THEN [res |-> NilPtr, err |-> apiErrorCodeToErr(a.res.Error.Code)]
    ELSE [res |-> [AuthenticationUUID |-> a.res.Success.AuthenticationUUID,
                   Status |-> a.res.Success.Status,
                   CreatedAt |-> [wall |-> "2024-05-01T10:00:01Z", nsec |-> 0],
                   ExpiresAt |-> a.res.Success.ExpiresAt],
          err |-> Nil]

\* AuthenticateWithContext from the return of c.api.Authentication on
authenticateReturn(a) ==
    IF a.err # Nil THEN [res |-> NilPtr, err |-> apiErrToErr(a.err)]
    ELSE IF a.res.Error # NoError
        THEN [res |-> NilPtr, err |-> apiErrorCodeToErr(a.res.Error.Code)]
    ELSE [res |-> [AuthenticationUUID |-> a.res.Success.AuthenticationUUID,
                   Status |-> a.res.Success.Status,
                   CreatedAt |-> a.res.Success.CreatedAt,
                   ExpiresAt |-> a.res.Success.ExpiresAt],
          err |-> Nil]

\* CheckWithContext returning an empty result next to the error of an error
\* payload
checkReturn_ResultWithError(a) ==
    IF a.err # Nil THEN [res |-> NilPtr, err |-> apiErrToErr(a.err)]
    ELSE IF a.res.Error # NoError
        THEN [res |-> [AuthenticationUUID |-> "", Status |-> ""],
              err |-> apiErrorCodeToErr(a.res.Error.Code)]
    ELSE [res |-> [AuthenticationUUID |-> a.res.Success.AuthenticationUUID,
                   Status |-> a.res.Success.Status],
          err |-> Nil]

\* CheckWithContext from the return of c.api.Check on
checkReturn(a) ==
    IF a.err # Nil THEN [res |-> NilPtr, err |-> apiErrToErr(a.err)]
    ELSE IF a.res.Error # NoError
        THEN [res |-> NilPtr, err |-> apiErrorCodeToErr(a.res.Error.Code)]
    ELSE [res |-> [AuthenticationUUID |-> a.res.Success.AuthenticationUUID,
                   Status |-> a.res.Success.Status],
          err |-> Nil]

\* RetryWithContext from the return of c.api.Retry on
retryReturn(a) ==
    IF a.err # Nil THEN [res |-> NilPtr, err |-> apiErrToErr(a.err)]
    ELSE IF a.res.Error # NoError
        THEN [res |-> NilPtr, err |-> apiErrorCodeToErr(a.res.Error.Code)]
    ELSE [res |-> [AuthenticationUUID |-> a.res.Success.AuthenticationUUID,
                   Status |-> a.res.Success.Status],
          err |-> Nil]

\* the API-layer function an operation calls, and the rest of the operation
apiCall(op, p) ==
    CASE op = "Authenticate" -> API_Authentication(p)
      [] op = "Check" -> API_Check(p)
      [] op = "Retry" -> API_Retry(p)

facadeReturn(op, a) ==
    CASE op = "Authenticate" -> authenticateReturn(a)
      [] op = "Check" -> checkReturn(a)
      [] op = "Retry" -> retryReturn(a)

\* the Errorf call of API.post on the error of a.hc.Do
postLog(do, l, s) == IF do.err # Nil THEN Errorf(l, s) ELSE s

\* the Errorf calls of an API-layer function that got p from API.post and
\* returns a: one for a status other than 200, one for a body that does not
\* decode
apiLog(p, a, l, s) ==
    IF p.err # Nil THEN s
    ELSE IF p.res.StatusCode # StatusOK THEN
        IF p.res.StatusCode = StatusForbidden THEN Errorf(l, s)
        ELSE IF a.err # Nil THEN Errorf(l, Errorf(l, s))
        ELSE Errorf(l, s)
    ELSE IF a.err # Nil THEN Errorf(l, s)
    ELSE s

-----------------------------------------------------------------------------
(* State machine *)

Init ==
    /\ client = NilPtr
    /\ newErr = Nil
    /\ pc = "idle"
    /\ call = NoCall
    /\ req = NoRequest
    /\ attempt = 0
    /\ requests = 0
    /\ resp = NoResponse
    /\ apiRet = NoAPIReturn
    /\ result = NoResult
    /\ config = NoConfig
    /\ ctx = Nil
    /\ stdout = <<>>
    /\ stderr = <<>>
    /\ logged = NoLogged
    /\ other = NoOther

\* a client whose operations exclude one another: a call begins only when no
\* other call on the client is under way
CanCall_ExclusiveClient == client # NilPtr /\ pc = "idle" /\ other.pc = "idle"

CanCall == client # NilPtr /\ pc = "idle"

\* a call that ends in its validation: no request is built
ReturnEarly(c, e) ==
    /\ pc' = "done"
    /\ call' = c
    /\ req' = NoRequest
    /\ attempt' = 0
    /\ requests' = 0
    /\ resp' = NoResponse
    /\ apiRet' = NoAPIReturn
    /\ result' = [res |-> NilPtr, err |-> e]
    /\ ctx' = Nil
    /\ stdout' = <<>>
    /\ stderr' = <<>>
    /\ UNCHANGED <<client, newErr, config, logged, other>>

\* a call that reaches API.post: the request is handed to the transport,
\* whose first attempt begins (and is logged as "performing request")
Send(c, url, payload) ==
    /\ pc' = "sending"
    /\ call' = c
    /\ req' = postRequest(client.api, url, payload)
    /\ attempt' = 0
    /\ requests' = 1
    /\ resp' = NoResponse
    /\ apiRet' = NoAPIReturn
    /\ result' = NoResult
    /\ ctx' = Nil
    /\ LET s == Debugf(client.api.leveledLogger, NoOutput)
       IN  stdout' = s.stdout /\ stderr' = s.stderr
    /\ UNCHANGED <<client, newErr, config, logged, other>>

NewClient(cfg) ==
    /\ pc = "idle"
    /\ client = NilPtr
    /\ config' = cfg
    /\ IF ~isValidUUID(cfg.CustomerUUID)
       THEN /\ client' = NilPtr
            /\ newErr' = ErrInvalidCustomerUUID
       ELSE LET logger == IF cfg.LeveledLogger = NilLogger THEN DefaultLeveledLogger
                          ELSE cfg.LeveledLogger
                n == New([BaseURL |-> apiBaseURL, APIKey |-> cfg.APIKey,
                          MaxNetworkRetries |-> cfg.MaxNetworkRetries,
                          CustomHTTPClient |-> cfg.CustomHTTPClient,
                          LeveledLogger |-> logger])
            IN  IF n.err # Nil
                THEN /\ client' = NilPtr
                     /\ newErr' = "create API client: " \o n.err
                ELSE /\ client' = [customerUUID |-> cfg.CustomerUUID, api |-> n.api]
                     /\ newErr' = Nil
    /\ UNCHANGED <<pc, call, req, attempt, requests, resp, apiRet, result,
                   ctx, stdout, stderr, logged, other>>

AuthenticateWithContext(opt) ==
    /\ CanCall
    /\ LET c == [op |-> "Authenticate", opt |-> opt, authUUID |-> "", code |-> ""]
           e == authenticateValidate(opt)
       IN  IF e # Nil THEN ReturnEarly(c, e)
           ELSE Send(c, "authentication", AuthRequest(client, opt))

CheckWithContext(authUUID, code) ==
    /\ CanCall
    /\ LET c == [op |-> "Check", opt |-> NoOptions, authUUID |-> authUUID, code |-> code]
           e == authUUIDValidate(authUUID)
       IN  IF e # Nil THEN ReturnEarly(c, e)
           ELSE Send(c, "check", CheckRequest(client, authUUID, code))

RetryWithContext(authUUID) ==
    /\ CanCall
    /\ LET c == [op |-> "Retry", opt |-> NoOptions, authUUID |-> authUUID, code |-> ""]
           e == authUUIDValidate(authUUID)
       IN  IF e # Nil THEN ReturnEarly(c, e)
           ELSE Send(c, "retry", RetryRequest(client, authUUID))

\* the loop of Client.Do reporting, after a retry, the failure it retried
RoundTrip_ReportsRetriedFailure(o) ==
    /\ pc = "sending"
    /\ o \in OutcomesUnder(ctx)
    /\ resp' = o
    /\ LET l == client.api.leveledLogger
           chk == DefaultRetryPolicy(ctx, o)
           remain == client.api.RetryMax - attempt
           s0 == [stdout |-> stdout, stderr |-> stderr]
           s1 == IF o.kind = "error" THEN Errorf(l, s0) ELSE s0
       IN  IF chk.retry /\ remain > 0
           THEN LET s2 == Debugf(l, s1)
                IN  /\ pc' = "backoff"
                    /\ stdout' = s2.stdout
                    /\ stderr' = s2.stderr
                    /\ UNCHANGED <<apiRet, result>>
           ELSE LET do == IF attempt > 0
                          THEN [res |-> NoResponse, err |-> "giving up after attempt(s)"]
                          ELSE doReturn(o, chk)
                    p == post(do)
                    a == apiCall(call.op, p)
                    s2 == apiLog(p, a, l, postLog(do, l, s1))
                IN  /\ pc' = "done"
                    /\ apiRet' = a
                    /\ result' = facadeReturn(call.op, a)
                    /\ stdout' = s2.stdout
                    /\ stderr' = s2.stderr
    /\ UNCHANGED <<client, newErr, call, req, attempt, requests, config, ctx, logged, other>>

(* One iteration of the loop of retryablehttp.Client.Do: the request in   *)
(* flight comes back with o (logged as "request failed" if o is an error). *)
(* If the policy asks for a retry and retries remain, the loop logs        *)
(* "retrying request" and waits for the backoff; otherwise Do returns, and *)
(* with it API.post, the API-layer function and the public operation.      *)
RoundTrip(o) ==
    /\ pc = "sending"
    /\ o \in OutcomesUnder(ctx)
    /\ resp' = o
    /\ LET l == client.api.leveledLogger
           chk == DefaultRetryPolicy(ctx, o)
           remain == client.api.RetryMax - attempt
           s0 == [stdout |-> stdout, stderr |-> stderr]
           s1 == IF o.kind = "error" THEN Errorf(l, s0) ELSE s0
       IN  IF chk.retry /\ remain > 0
           THEN LET s2 == Debugf(l, s1)
                IN  /\ pc' = "backoff"
                    /\ stdout' = s2.stdout
                    /\ stderr' = s2.stderr
                    /\ UNCHANGED <<apiRet, result>>
           ELSE LET do == doReturn(o, chk)
                    p == post(do)
                    a == apiCall(call.op, p)
                    s2 == apiLog(p, a, l, postLog(do, l, s1))
                IN  /\ pc' = "done"
                    /\ apiRet' = a
                    /\ result' = facadeReturn(call.op, a)
                    /\ stdout' = s2.stdout
                    /\ stderr' = s2.stderr
    /\ UNCHANGED <<client, newErr, call, req, attempt, requests, config, ctx, logged, other>>

\* the backoff timer of the loop fires under a live context: the next
\* attempt begins (and is logged as "performing request")
BackoffElapsed ==
    /\ pc = "backoff"
    /\ ctx = Nil
    /\ pc' = "sending"
    /\ attempt' = attempt + 1
    /\ requests' = requests + 1
    /\ resp' = NoResponse
    /\ LET s == Debugf(client.api.leveledLogger, [stdout |-> stdout, stderr |-> stderr])
       IN  stdout' = s.stdout /\ stderr' = s.stderr
    /\ UNCHANGED <<client, newErr, call, req, apiRet, result, config, ctx, logged, other>>

\* the caller's context is cancelled, or its deadline passes, while a
\* request is in flight or the loop waits in a backoff
ContextDone(e) ==
    /\ pc \in {"sending", "backoff"}
    /\ ctx = Nil
    /\ ctx' = e
    /\ UNCHANGED <<client, newErr, pc, call, req, attempt, requests, resp, apiRet,
                   result, config, stdout, stderr, logged, other>>

(* The backoff wait of the loop under a context that is done: the select   *)
(* takes the context's case and Do returns ctx.Err(); or, if the timer     *)
(* fired too (timerWon), it takes the timer's case, and the next           *)
(* HTTPClient.Do fails with ctx.Err() before anything is sent, which the   *)
(* policy does not retry.  Either way API.post returns ErrInternal.        *)
BackoffCancelled(timerWon) ==
    /\ pc = "backoff"
    /\ ctx # Nil
    /\ LET l == client.api.leveledLogger
           s0 == [stdout |-> stdout, stderr |-> stderr]
           s1 == IF timerWon THEN Errorf(l, Debugf(l, s0)) ELSE s0
           do == [res |-> NoResponse, err |-> ctx]
           p == post(do)
           a == apiCall(call.op, p)
           s2 == apiLog(p, a, l, postLog(do, l, s1))
       IN  /\ pc' = "done"
           /\ attempt' = IF timerWon THEN attempt + 1 ELSE attempt
           /\ resp' = IF timerWon THEN NetworkError(ctx) ELSE resp
           /\ apiRet' = a
           /\ result' = facadeReturn(call.op, a)
           /\ stdout' = s2.stdout
           /\ stderr' = s2.stderr
    /\ UNCHANGED <<client, newErr, call, req, requests, config, ctx, logged, other>>

\* the operation has returned: the caller holds the result and the client
\* is ready for the next call
Return ==
    /\ pc = "done"
    /\ pc' = "idle"
    /\ call' = NoCall
    /\ req' = NoRequest
    /\ attempt' = 0
    /\ requests' = 0
    /\ resp' = NoResponse
    /\ apiRet' = NoAPIReturn
    /\ result' = NoResult
    /\ ctx' = Nil
    /\ stdout' = <<>>
    /\ stderr' = <<>>
    /\ UNCHANGED <<client, newErr, config, logged, other>>

Next ==
    \/ \E cfg \in Configs : NewClient(cfg)
    \/ \E opt \in AuthenticateOptionsSet : AuthenticateWithContext(opt)
    \/ \E u \in UUIDSamples, code \in CheckCodes : CheckWithContext(u, code)
    \/ \E u \in UUIDSamples : RetryWithContext(u)
    \/ \E o \in Outcomes \cup UNION { OutcomesUnder(e) : e \in ContextErrors } :
          RoundTrip(o)
    \/ BackoffElapsed
    \/ \E e \in ContextErrors : ContextDone(e)
    \/ \E timerWon \in BOOLEAN : BackoffCancelled(timerWon)
    \/ Return

Spec == Init /\ [][Next]_vars

-----------------------------------------------------------------------------
(* The retry loop under fairness: a client of every retry setting calls    *)
(* the three operations with valid arguments against a server that answers *)
(* every request, with a response or a failure of each class.  A request   *)
(* in flight comes back, a backoff timer fires and a done context wakes    *)
(* the backoff wait.                                                        *)

LoopConfigs ==
    [CustomerUUID : {"f0b399ce-eead-4781-bab5-f63240e81a52"},
     APIKey : {"valid_api_key"},
     MaxNetworkRetries : {NilInt} \cup {IntPtr(n) : n \in 0..MaxRetriesSet},
     CustomHTTPClient : {NilHTTPClient},
     LeveledLogger : {NilLogger}]

LoopOutcomes ==
    { Response(200, Body(AuthSuccessBody(JString("pending")))),
      Response(200, Body(CheckSuccessBody(JString("valid")))),
      Response(200, Body(RetrySuccessBody(JString("approved")))),
      Response(400, Body(ErrorBody(JString(ErrorCodeInvalidPhoneNumber)))),
      Response(403, Body(GatewayErrorMessage)),
      Response(429, Body(NoBytes)),
      Response(500, Body(ErrorBody(JString(ErrorCodeInternalServer)))),
      Response(503, Body(ErrorBody(JString(ErrorCodeNegativeBalance)))),
      NetworkError("connection refused"),
      NetworkError("x509: certificate signed by unknown authority") }
        \cup UNION { OutcomesUnder(e) : e \in ContextErrors }

LoopNext ==
    \/ \E cfg \in LoopConfigs : NewClient(cfg)
    \/ AuthenticateWithContext(Options("+14155552671", NilString))
    \/ CheckWithContext("f0b399ce-eead-4781-bab5-f63240e81a52", "3588")
    \/ RetryWithContext("f0b399ce-eead-4781-bab5-f63240e81a52")
    \/ \E o \in LoopOutcomes : RoundTrip(o)
    \/ BackoffElapsed
    \/ \E e \in ContextErrors : ContextDone(e)
    \/ \E timerWon \in BOOLEAN : BackoffCancelled(timerWon)
    \/ Return

FairSpec ==
    /\ Init
    /\ [][LoopNext]_vars
    /\ WF_vars(\E o \in LoopOutcomes : RoundTrip(o))
    /\ WF_vars(BackoffElapsed)
    /\ WF_vars(\E timerWon \in BOOLEAN : BackoffCancelled(timerWon))

-----------------------------------------------------------------------------
(* Two goroutines calling the operations of one client.  The variables pc, *)
(* call, req, attempt, requests, resp, apiRet, result, ctx and the lines   *)
(* written hold the locals of the goroutine that takes the next step;      *)
(* other holds those of the goroutine that waits.  The scheduler may hand  *)
(* the processor over at any point of a call: during a request in flight,  *)
(* during a backoff wait, before the caller has read the returned values.  *)

\* the locals of the goroutine taking the next step
Running ==
    [pc |-> pc, call |-> call, req |-> req, attempt |-> attempt,
     requests |-> requests, resp |-> resp, apiRet |-> apiRet,
     result |-> result, ctx |-> ctx, stdout |-> stdout, stderr |-> stderr]

\* the scheduler runs the other goroutine
Switch ==
    /\ client # NilPtr
    /\ pc # "idle" \/ other.pc # "idle"
    /\ other' = Running
    /\ pc' = other.pc
    /\ call' = other.call
    /\ req' = other.req
    /\ attempt' = other.attempt
    /\ requests' = other.requests
    /\ resp' = other.resp
    /\ apiRet' = other.apiRet
    /\ result' = other.result
    /\ ctx' = other.ctx
    /\ stdout' = other.stdout
    /\ stderr' = other.stderr
    /\ UNCHANGED <<client, newErr, config, logged>>

ConcConfigs ==
    [CustomerUUID : {"f0b399ce-eead-4781-bab5-f63240e81a52"},
     APIKey : {"valid_api_key"},
     MaxNetworkRetries : {IntPtr(1)},
     CustomHTTPClient : {NilHTTPClient},
     LeveledLogger : {NilLogger}]

ConcNext ==
    \/ \E cfg \in ConcConfigs : NewClient(cfg)
    \/ \E p \in {"+14155552671", "invalid_phone_number"} :
          AuthenticateWithContext(Options(p, NilString))
    \/ CheckWithContext("f0b399ce-eead-4781-bab5-f63240e81a52", "3588")
    \/ \E u \in {"f0b399ce-eead-4781-bab5-f63240e81a52", "invalid_uuid"} :
          RetryWithContext(u)
    \/ \E o \in LoopOutcomes : RoundTrip(o)
    \/ BackoffElapsed
    \/ \E e \in ContextErrors : ContextDone(e)
    \/ \E timerWon \in BOOLEAN : BackoffCancelled(timerWon)
    \/ Return
    \/ Switch

ConcSpec == Init /\ [][ConcNext]_vars

-----------------------------------------------------------------------------
(* The Logger of log.go used on its own: the application calls the methods *)
(* of loggers of every level, outside any client operation.                *)

\* lines the two streams hold at most
MaxLogLines == 3

Methods == { "Debugf", "Errorf", "Infof", "Warnf" }

\* the method m of the logger l, on the streams s
loggerCall(l, m, s) ==
    CASE m = "Debugf" -> Debugf(l, s)
      [] m = "Errorf" -> Errorf(l, s)
      [] m = "Infof" -> Infof(l, s)
      [] m = "Warnf" -> Warnf(l, s)

LoggerMethod(l, m) ==
    /\ pc = "idle"
    /\ Len(stdout) + Len(stderr) < MaxLogLines
    /\ LET s0 == [stdout |-> stdout, stderr |-> stderr]
           s1 == loggerCall(l, m, s0)
       IN  /\ logged' = [logger |-> l, method |-> m, before |-> s0]
           /\ stdout' = s1.stdout
           /\ stderr' = s1.stderr
    /\ UNCHANGED <<client, newErr, pc, call, req, attempt, requests, resp, apiRet,
                   result, config, ctx, other>>

LoggerNext == \E level \in Levels, m \in Methods : LoggerMethod(Logger(level), m)

LoggerSpec == Init /\ [][LoggerNext]_vars

-----------------------------------------------------------------------------
(* Properties *)

\* the call in flight has returned
Done == pc = "done"

\* the last attempt of the returned call received an HTTP response, under
\* a live context
Responded == Done /\ resp.kind = "response" /\ ctx = Nil

\* the verdict of the phone number library on a string
PhoneNumberIsValid(str) ==
    /\ phonenumbersParse(str).err = Nil
    /\ phonenumbersIsValidNumber(phonenumbersParse(str).num)

\* C1: for every phone number that does not parse as a valid number,
\* Authenticate returns ErrInvalidPhoneNumber and a nil result, and no
\* network request is issued during the call, whatever the other options,
\* the API key and the server are.
C1_InvalidPhoneNumberNoRequest ==
    (call.op = "Authenticate" /\ ~PhoneNumberIsValid(call.opt.PhoneNumber))
        => /\ Done
           /\ result = [res |-> NilPtr, err |-> ErrInvalidPhoneNumber]
           /\ requests = 0
           /\ req = NoRequest
           /\ resp = NoResponse

\* C1 witness: a number that parses but is not valid, with a callback URL
\* set and an empty API key, has been rejected
C1_Witness ==
    /\ Done
    /\ call.op = "Authenticate"
    /\ call.opt.PhoneNumber = "+1415555"
    /\ call.opt.CallbackURL = String("https://example.com/callback")
    /\ client.api.apiKey = ""
    /\ result.err = ErrInvalidPhoneNumber

\* C2: for every authenticationUUID that is not a syntactically valid UUID,
\* Check (for any code) and Retry return ErrInvalidAuthUUID with a nil
\* result, and no network request is issued during the call.
C2_InvalidAuthUUIDNoRequest ==
    (call.op \in {"Check", "Retry"} /\ uuidParse(call.authUUID) # Nil)
        => /\ Done
           /\ result = [res |-> NilPtr, err |-> ErrInvalidAuthUUID]
           /\ requests = 0
           /\ req = NoRequest
           /\ resp = NoResponse

\* C2 witness: Check with a 36 character string that is no UUID, and a code,
\* has been rejected
C2_Witness ==
    /\ Done
    /\ call.op = "Check"
    /\ call.authUUID = "f0b399ce-eead-4781-bab5-f63240e81a5g"
    /\ call.code = "3588"
    /\ result.err = ErrInvalidAuthUUID

\* C3: an HTTP 403 response yields api.ErrUnauthorized at the API layer and
\* ErrUnauthorized at the public boundary from Authenticate, Check and
\* Retry, whatever the body of the response is.
C3_ForbiddenIsUnauthorized ==
    (Responded /\ resp.StatusCode = 403)
        => /\ apiRet = apiFail(apiErrUnauthorized)
           /\ result = [res |-> NilPtr, err |-> ErrUnauthorized]

\* C3 witness: Retry has returned on a 403 whose body is a well-formed
\* error payload carrying a code of the table
C3_Witness ==
    /\ Responded
    /\ call.op = "Retry"
    /\ resp.StatusCode = 403
    /\ resp.Body = Body(ErrorBody(JString(ErrorCodeNegativeBalance)))
    /\ result.err = ErrUnauthorized

\* C4: every error a public operation returns, for any input, any response
\* and any transport failure, is one of the eight exported error values.
C4_ClosedErrorSet ==
    Done => result.err \in PublicErrors \cup {Nil}

\* C4 witness: a call has returned after a network error
C4_Witness ==
    /\ Done
    /\ resp.kind = "error"
    /\ requests > 1
    /\ result.err = ErrInternal

\* a status the retrying transport takes for a transient failure
TransientStatus(code) == code = 429 \/ (code >= 500 /\ code # 501)

\* the returned call ended on a response that API.post handed to the error
\* branch of the API-layer function (not 200, not 403, not retried)
ErrorBranch ==
    /\ Responded
    /\ resp.StatusCode \notin {200, 403}
    /\ ~TransientStatus(resp.StatusCode)

\* the code table as C5 states it
C5_ClaimedTable(code) ==
    CASE code = "invalid_phone_number" -> ErrInvalidPhoneNumber
      [] code = "account_invalid" -> ErrInvalidCustomerUUID
      [] code = "negative_balance" -> ErrNegativeBalance
      [] code = "unsupported_region" -> ErrUnsupportedRegion
      [] code = "invalid_auth_uuid" -> ErrInvalidAuthUUID
      [] OTHER -> ErrInternal

\* the code table with the entry the operations also apply
C5_AmendedTable(code) ==
    CASE code = "invalid_phone_number" -> ErrInvalidPhoneNumber
      [] code = "invalid_line" -> ErrInvalidPhoneNumber
      [] code = "account_invalid" -> ErrInvalidCustomerUUID
      [] code = "negative_balance" -> ErrNegativeBalance
      [] code = "unsupported_region" -> ErrUnsupportedRegion
      [] code = "invalid_auth_uuid" -> ErrInvalidAuthUUID
      [] OTHER -> ErrInternal

\* an error payload without a code
ErrorBodyWithoutCode ==
    Object([message |-> JString("request rejected"),
            doc_url |-> JString("https://docs.example.com/api/error-handling")])

\* C5 as stated: the server-reported code is mapped by the five-entry table,
\* every other code (empty, missing, unrecognized) yields ErrInternal, the
\* same for Authenticate, Check and Retry.
C5_Original ==
    /\ \A c \in CodeSamples :
          (ErrorBranch /\ resp.Body.doc = ErrorBody(JString(c)))
              => result = [res |-> NilPtr, err |-> C5_ClaimedTable(c)]
    /\ (ErrorBranch /\ resp.Body.doc = ErrorBodyWithoutCode)
          => result = [res |-> NilPtr, err |-> ErrInternal]

\* C5 amended: the server-reported code is mapped by the table
\* invalid_phone_number -> ErrInvalidPhoneNumber, invalid_line ->
\* ErrInvalidPhoneNumber, account_invalid -> ErrInvalidCustomerUUID,
\* negative_balance -> ErrNegativeBalance, unsupported_region ->
\* ErrUnsupportedRegion, invalid_auth_uuid -> ErrInvalidAuthUUID; every
\* other code (empty, missing, unrecognized) yields ErrInternal, the same for
\* Authenticate, Check and Retry.
C5_CodeTable ==
    /\ \A c \in CodeSamples :
          (ErrorBranch /\ resp.Body.doc = ErrorBody(JString(c)))
              => result = [res |-> NilPtr, err |-> C5_AmendedTable(c)]
    /\ (ErrorBranch /\ resp.Body.doc = ErrorBodyWithoutCode)
          => result = [res |-> NilPtr, err |-> ErrInternal]

\* C5 witness: Check has returned ErrInvalidPhoneNumber on a 400 carrying
\* invalid_line
C5_Witness ==
    /\ ErrorBranch
    /\ call.op = "Check"
    /\ resp.StatusCode = 400
    /\ resp.Body = Body(ErrorBody(JString("invalid_line")))
    /\ result.err = ErrInvalidPhoneNumber

\* the ErrorResponse a well-formed error payload with code c decodes to
C6_Decoded(c) ==
    [Code |-> c, Message |-> "request rejected",
     DocURL |-> "https://docs.example.com/api/error-handling"]

\* C6 as stated: for every 4xx/5xx status other than 403 whose body is a
\* well-formed error payload, the decoder returns the domain error with that
\* code, message and doc_url, and the operation's error is the table's; for
\* 5xx and 429 as well as for 400.
C6_Original ==
    \A c \in CodeSamples :
        (/\ Responded
         /\ resp.StatusCode \in 400..599
         /\ resp.StatusCode # 403
         /\ resp.Body = Body(ErrorBody(JString(c))))
            => /\ apiRet = apiError(C6_Decoded(c))
               /\ result = [res |-> NilPtr, err |-> C5_AmendedTable(c)]

\* C6 amended: for every 4xx/5xx status other than 403, 429 and the 5xx
\* statuses other than 501, a well-formed error payload is returned by the
\* decoder as the domain error with exactly its code, message and doc_url,
\* and the operation's error is the table's; under 429 and the 5xx statuses
\* other than 501 the transport retries, the payload never reaches the
\* decoder and the operation returns the internal error once the retries
\* are used up.
C6_ErrorPayloadDecoded ==
    \A c \in CodeSamples :
        (/\ Responded
         /\ resp.StatusCode \in 400..599
         /\ resp.StatusCode # 403
         /\ resp.Body = Body(ErrorBody(JString(c))))
            => IF TransientStatus(resp.StatusCode)
               THEN /\ apiRet = apiFail(apiErrInternal)
                    /\ result = [res |-> NilPtr, err |-> ErrInternal]
                    /\ requests = client.api.RetryMax + 1
               ELSE /\ apiRet = apiError(C6_Decoded(c))
                    /\ result = [res |-> NilPtr, err |-> C5_AmendedTable(c)]

\* C6 witness: Authenticate has returned ErrNegativeBalance on a 501
\* carrying negative_balance
C6_Witness ==
    /\ Responded
    /\ call.op = "Authenticate"
    /\ resp.StatusCode = 501
    /\ resp.Body = Body(ErrorBody(JString("negative_balance")))
    /\ apiRet = apiError(C6_Decoded("negative_balance"))
    /\ result.err = ErrNegativeBalance

\* the bytes of a body are one JSON value and nothing else
ValidJSON(body) == body.doc.t \notin {"none", "invalid"} /\ ~body.trailing

\* C7: a response whose body is not valid JSON yields api.ErrInternal and
\* ErrInternal from every operation, under 200 and under every other status
\* except 403; never a success result or a domain error.
C7_NotJSONIsInternal ==
    (Responded /\ resp.StatusCode # 403 /\ ~ValidJSON(resp.Body))
        => /\ apiRet = apiFail(apiErrInternal)
           /\ result = [res |-> NilPtr, err |-> ErrInternal]

\* the body has the success shape of the operation: every field of the
\* endpoint's payload, each of its type
HasSuccessShape(op, body) ==
    /\ ValidJSON(body)
    /\ CASE op = "Authenticate" ->
                body.doc \in { AuthSuccessBody(JString(st)) : st \in StatusSamples }
         [] op = "Check" ->
                body.doc \in { CheckSuccessBody(JString(st)) : st \in StatusSamples }
         [] op = "Retry" ->
                body.doc \in { RetrySuccessBody(JString(st)) : st \in StatusSamples }
         [] OTHER -> FALSE

\* the body has the error shape {code, message, doc_url}
HasErrorShape(body) == ValidJSON(body) /\ body.doc \in ErrorDocs

\* C8: an operation returns a success result only when the status is 200
\* and the body has the expected success shape; a body that is valid JSON
\* of the wrong shape yields the internal error, and never a success result
\* or a domain error built from absent fields.
C8_WrongShapeIsInternal ==
    /\ (Done /\ result.err = Nil /\ call.op # "none")
          => /\ resp.kind = "response"
             /\ resp.StatusCode = 200
             /\ HasSuccessShape(call.op, resp.Body)
    /\ (/\ Responded
        /\ resp.StatusCode # 403
        /\ ~TransientStatus(resp.StatusCode)
        /\ ValidJSON(resp.Body)
        /\ IF resp.StatusCode = 200 THEN ~HasSuccessShape(call.op, resp.Body)
           ELSE ~HasErrorShape(resp.Body))
          => /\ apiRet = apiFail(apiErrInternal)
             /\ result = [res |-> NilPtr, err |-> ErrInternal]

\* the instants the sample timestamps T1 and T2 denote
C9_T1 == [wall |-> "2024-05-01T10:00:00Z", nsec |-> 0]
C9_T2 == [wall |-> "2024-05-01T10:05:00Z", nsec |-> 123456789]

\* C9: for each of the three status enumerations, a 200 success payload
\* whose status is a string outside the enumeration's recognized values
\* decodes without error, with the status set to the enumeration's unknown
\* member and every other field as sent.
C9_UnknownStatusTolerated ==
    \A st \in StatusSamples :
        /\ (/\ Responded /\ resp.StatusCode = 200 /\ call.op = "Authenticate"
            /\ st \notin { "pending", "rate_limited", "spam_detected", "approved",
                           "canceled", "expired" }
            /\ resp.Body = Body(AuthSuccessBody(JString(st))))
              => /\ apiRet = apiSuccess([AuthenticationUUID |-> SampleUUID,
                                         Status |-> AuthUnknown,
                                         CreatedAt |-> C9_T1, ExpiresAt |-> C9_T2])
                 /\ result = [res |-> [AuthenticationUUID |-> SampleUUID,
                                       Status |-> AuthUnknown,
                                       CreatedAt |-> C9_T1, ExpiresAt |-> C9_T2],
                              err |-> Nil]
        /\ (/\ Responded /\ resp.StatusCode = 200 /\ call.op = "Check"
            /\ st \notin { "valid", "invalid", "without_attempt", "rate_limited",
                           "already_validated", "expired_auth" }
            /\ resp.Body = Body(CheckSuccessBody(JString(st))))
              => /\ apiRet = apiSuccess([AuthenticationUUID |-> SampleUUID,
                                         Status |-> CheckUnknown])
                 /\ result = [res |-> [AuthenticationUUID |-> SampleUUID,
                                       Status |-> CheckUnknown],
                              err |-> Nil]
        /\ (/\ Responded /\ resp.StatusCode = 200 /\ call.op = "Retry"
            /\ st \notin { "approved", "denied", "no_attempt", "rate_limited",
                           "expired_auth", "already_validated" }
            /\ resp.Body = Body(RetrySuccessBody(JString(st))))
              => /\ apiRet = apiSuccess([AuthenticationUUID |-> SampleUUID,
                                         Status |-> RetryUnknown,
                                         CreatedAt |-> C9_T1, NextRetryAt |-> C9_T2,
                                         RemainingRetry |-> 2])
                 /\ result = [res |-> [AuthenticationUUID |-> SampleUUID,
                                       Status |-> RetryUnknown],
                              err |-> Nil]

\* C9 witness: Check has returned the unknown status for "approved", a
\* value the Auth and Retry enumerations recognize and Check does not
C9_Witness ==
    /\ Responded
    /\ call.op = "Check"
    /\ resp.StatusCode = 200
    /\ resp.Body = Body(CheckSuccessBody(JString("approved")))
    /\ result.err = Nil
    /\ result.res.Status = "unknown"

\* C10: an error code that is none of the known codes decodes to an unknown
\* sentinel of the error-code enumeration, not to the raw string, and the
\* decoding of the payload does not fail because of the code.
C10_UnknownCodeIsSentinel ==
    \A c \in (CodeSamples \ KnownErrorCodes) \ {""} :
        (ErrorBranch /\ resp.Body = Body(ErrorBody(JString(c))))
            => /\ apiRet.err = Nil
               /\ apiRet.res # NilPtr
               /\ apiRet.res.Error # NoError
               /\ apiRet.res.Error.Code # c

\* C11: for each of the three endpoints, a 200 response with a well-formed
\* success body decodes to a result whose every field equals the JSON value
\* sent (authentication_uuid, recognized status, timestamps to the
\* nanosecond, remaining_retry) with a nil Error part; Authenticate returns
\* the UUID, the status and both timestamps as the server reported them.
C11_SuccessRoundTrip ==
    \A st \in StatusSamples :
        /\ (/\ Responded /\ resp.StatusCode = 200 /\ call.op = "Authenticate"
            /\ st \in { "pending", "rate_limited", "spam_detected", "approved",
                        "canceled", "expired" }
            /\ resp.Body = Body(AuthSuccessBody(JString(st))))
              => /\ apiRet = apiSuccess([AuthenticationUUID |-> SampleUUID,
                                         Status |-> st,
                                         CreatedAt |-> C9_T1, ExpiresAt |-> C9_T2])
                 /\ result = [res |-> [AuthenticationUUID |-> SampleUUID,
                                       Status |-> st,
                                       CreatedAt |-> C9_T1, ExpiresAt |-> C9_T2],
                              err |-> Nil]
        /\ (/\ Responded /\ resp.StatusCode = 200 /\ call.op = "Check"
            /\ st \in { "valid", "invalid", "without_attempt", "rate_limited",
                        "already_validated", "expired_auth" }
            /\ resp.Body = Body(CheckSuccessBody(JString(st))))
              => /\ apiRet = apiSuccess([AuthenticationUUID |-> SampleUUID,
                                         Status |-> st])
                 /\ result.err = Nil
        /\ (/\ Responded /\ resp.StatusCode = 200 /\ call.op = "Retry"
            /\ st \in { "approved", "denied", "no_attempt", "rate_limited",
                        "expired_auth", "already_validated" }
            /\ resp.Body = Body(RetrySuccessBody(JString(st))))
              => /\ apiRet = apiSuccess([AuthenticationUUID |-> SampleUUID,
                                         Status |-> st,
                                         CreatedAt |-> C9_T1, NextRetryAt |-> C9_T2,
                                         RemainingRetry |-> 2])
                 /\ result.err = Nil

\* C11 witness: Authenticate has returned the pending challenge with the
\* expiry the server sent, nanoseconds included
C11_Witness ==
    /\ Responded
    /\ call.op = "Authenticate"
    /\ resp.StatusCode = 200
    /\ resp.Body = Body(AuthSuccessBody(JString("pending")))
    /\ result.err = Nil
    /\ result.res.Status = "pending"
    /\ result.res.ExpiresAt.nsec = 123456789

\* C12: the result the public Retry operation returns on success carries,
\* besides the authentication UUID and the status, the createdAt,
\* nextRetryAt and remainingRetry values the server reported.
C12_RetryResultCarriesAllFields ==
    (/\ Responded /\ resp.StatusCode = 200 /\ call.op = "Retry"
     /\ resp.Body = Body(RetrySuccessBody(JString("approved"))))
        => /\ result.err = Nil
           /\ result.res.AuthenticationUUID = SampleUUID
           /\ result.res.Status = "approved"
           /\ {"CreatedAt", "NextRetryAt", "RemainingRetry"} \subseteq DOMAIN result.res
           /\ result.res.CreatedAt = C9_T1
           /\ result.res.NextRetryAt = C9_T2
           /\ result.res.RemainingRetry = 2

\* C13: NewClient with a CustomerUUID that is not a valid UUID (the empty
\* string included) returns a nil client and ErrInvalidCustomerUUID,
\* whatever the other configuration fields are; with a valid CustomerUUID
\* it succeeds for every combination of the other fields.
C13_CustomerUUIDValidated ==
    (config # NoConfig)
        => IF uuidParse(config.CustomerUUID) # Nil
           THEN /\ client = NilPtr
                /\ newErr = ErrInvalidCustomerUUID
           ELSE /\ client # NilPtr
                /\ newErr = Nil
                /\ client.customerUUID = config.CustomerUUID

\* C13 witness: a configuration with a custom HTTP client and an invalid
\* customer UUID has been rejected
C13_Witness ==
    /\ config.CustomerUUID = "invalid_uuid"
    /\ config.CustomHTTPClient = HTTPClient
    /\ client = NilPtr
    /\ newErr = ErrInvalidCustomerUUID

\* the string is an absolute URL: it has a scheme
IsAbsoluteURL(u) == u \in { "https://example.com/callback" }

\* C14: with a valid phone number, a callback URL that is provided and is
\* not a syntactically valid absolute URL (a bare word, a path-only value
\* such as "/callback") yields ErrInvalidCallbackURL with zero network
\* requests; a valid absolute URL passes validation and the call proceeds to
\* the network request; when no callback URL is provided no URL validation
\* takes place.
C14_CallbackURLValidated ==
    (call.op = "Authenticate" /\ PhoneNumberIsValid(call.opt.PhoneNumber))
        => IF call.opt.CallbackURL.set /\ ~IsAbsoluteURL(call.opt.CallbackURL.v)
           THEN /\ Done
                /\ result = [res |-> NilPtr, err |-> ErrInvalidCallbackURL]
                /\ requests = 0
                /\ req = NoRequest
           ELSE /\ req # NoRequest
                /\ requests >= 1
                /\ result.err # ErrInvalidCallbackURL

\* the call in flight has not returned yet
InFlight == pc \in {"sending", "backoff"}

\* the outcome is a failure the transport takes for transient
TransientFailure(o) ==
    \/ o.kind = "error" /\ o.err = "connection refused"
    \/ o.kind = "response" /\ TransientStatus(o.StatusCode)

\* the success result of the operation for the sample body of its endpoint
C15_Success(op) ==
    CASE op = "Authenticate" ->
            [AuthenticationUUID |-> SampleUUID, Status |-> "pending",
             CreatedAt |-> C9_T1, ExpiresAt |-> C9_T2]
      [] op = "Check" -> [AuthenticationUUID |-> SampleUUID, Status |-> "valid"]
      [] op = "Retry" -> [AuthenticationUUID |-> SampleUUID, Status |-> "approved"]

C15_SuccessBody(op) ==
    CASE op = "Authenticate" -> Body(AuthSuccessBody(JString("pending")))
      [] op = "Check" -> Body(CheckSuccessBody(JString("valid")))
      [] op = "Retry" -> Body(RetrySuccessBody(JString("approved")))

\* C15: if the server fails transiently (connection error, retryable 5xx) k
\* times, k not greater than the maximum retry count, and then answers 200
\* with a well-formed body, the operation eventually returns the success
\* result of that last response and a nil error: a call in flight always
\* returns, a transient failure with retries left is never reported, and a
\* call that ends on such a 200 returns its payload whatever number of
\* failures preceded it.
C15_RetriesInvisible ==
    /\ [](\A op \in {"Authenticate", "Check", "Retry"} :
            (/\ Done /\ ctx = Nil /\ call.op = op
             /\ resp = Response(200, C15_SuccessBody(op)))
                => /\ result = [res |-> C15_Success(op), err |-> Nil]
                   /\ attempt <= client.api.RetryMax
                   /\ requests = attempt + 1)
    /\ []((/\ Done /\ ctx = Nil /\ requests > 0 /\ TransientFailure(resp))
            => attempt = client.api.RetryMax)
    /\ (InFlight ~> Done)

\* C15 witness: Authenticate has returned the success result at the third
\* request, the last one a maximum retry count of 2 allows
C15_Witness ==
    /\ Done
    /\ call.op = "Authenticate"
    /\ config.MaxNetworkRetries = IntPtr(2)
    /\ attempt = 2
    /\ requests = 3
    /\ resp.StatusCode = 200
    /\ result.err = Nil
    /\ result.res.AuthenticationUUID = SampleUUID

\* C16: against a server that keeps failing transiently, an operation with
\* maximum retry count N issues at most N+1 requests, then terminates and
\* returns ErrInternal; a non-retryable network failure yields the same
\* ErrInternal; no error is surfaced before the retries are exhausted.
C16_ExhaustionIsInternal ==
    /\ [](client # NilPtr => requests <= client.api.RetryMax + 1)
    /\ []((/\ Done /\ ctx = Nil /\ requests > 0 /\ TransientFailure(resp))
            => /\ result = [res |-> NilPtr, err |-> ErrInternal]
               /\ attempt = client.api.RetryMax
               /\ requests = client.api.RetryMax + 1)
    /\ []((/\ Done /\ ctx = Nil /\ resp.kind = "error" /\ ~TransientFailure(resp))
            => result = [res |-> NilPtr, err |-> ErrInternal])
    /\ [](pc = "backoff" => result = NoResult)
    /\ (InFlight ~> Done)

\* C16 witness: with the maximum retry count 2, Check has returned
\* ErrInternal after three requests that all met a 503
C16_Witness ==
    /\ Done
    /\ call.op = "Check"
    /\ config.MaxNetworkRetries = IntPtr(2)
    /\ resp.kind = "response"
    /\ resp.StatusCode = 503
    /\ requests = 3
    /\ result.err = ErrInternal

\* C17: when MaxNetworkRetries is left unset the maximum retry count in
\* effect is 3, so that an operation performs at most 3 retries (4 requests
\* in total) before it returns an error; when it is set to N the count in
\* effect is N.
C17_DefaultMaxRetries ==
    (client # NilPtr)
        => IF config.MaxNetworkRetries.set
           THEN /\ client.api.RetryMax = config.MaxNetworkRetries.v
                /\ requests <= config.MaxNetworkRetries.v + 1
           ELSE /\ client.api.RetryMax = 3
                /\ requests <= 3 + 1

\* C18: once the caller's context is cancelled or its deadline passes, with
\* a request in flight or during a retry backoff, no further request is
\* started, the next step of the call is its return, the operation
\* eventually returns, and what it returns is an error and no result.
C18_CancellationHonoured ==
    /\ [][ctx # Nil => requests' <= requests]_vars
    /\ [][(ctx # Nil /\ InFlight) => pc' = "done"]_vars
    /\ []((Done /\ ctx # Nil) => (result.res = NilPtr /\ result.err \in PublicErrors))
    /\ (ctx # Nil ~> Done)

\* C18 witness: Retry on a client with the default retry count has returned
\* ErrInternal after one request: its deadline passed during the backoff
\* that followed a 503
C18_Witness ==
    /\ Done
    /\ ctx = "context deadline exceeded"
    /\ call.op = "Retry"
    /\ ~config.MaxNetworkRetries.set
    /\ resp.kind = "response"
    /\ resp.StatusCode = 503
    /\ requests = 1
    /\ result = [res |-> NilPtr, err |-> ErrInternal]

\* C19: when an operation is aborted because the caller's context is done,
\* the transport returns an error distinguishable from the error it returns
\* for other transport failures (connection failure, retries exhausted).
C19_CancellationIsDistinguishable ==
    (Done /\ ctx # Nil)
        => /\ apiRet.err # Nil
           /\ apiRet.err # apiErrInternal

\* the severity of the messages a method of the logger writes
Severity(m) ==
    CASE m = "Debugf" -> LevelDebug
      [] m = "Infof" -> LevelInfo
      [] m = "Warnf" -> LevelWarn
      [] m = "Errorf" -> LevelError

\* the line a method writes when it emits, added to the stream it belongs to
C20_Emitted(m, s) ==
    CASE m = "Debugf" -> [s EXCEPT !.stdout = Append(@, "[DEBUG]")]
      [] m = "Infof" -> [s EXCEPT !.stdout = Append(@, "[INFO]")]
      [] m = "Warnf" -> [s EXCEPT !.stderr = Append(@, "[WARN]")]
      [] m = "Errorf" -> [s EXCEPT !.stderr = Append(@, "[ERROR]")]

\* C20: a Logger whose Level is L emits exactly the messages whose severity
\* is L or higher in the order debug < info < warn < error (LevelWarn:
\* warnings and errors, no informational or debug messages; LevelDebug:
\* all four); warnings and errors go to standard error, debug and
\* informational messages to standard output.
C20_LoggerThreshold ==
    (logged.method # "none")
        => LET expected == IF Severity(logged.method) >= logged.logger.Level
                           THEN C20_Emitted(logged.method, logged.before)
                           ELSE logged.before
           IN  /\ stdout = expected.stdout
               /\ stderr = expected.stderr

\* C21: with no LeveledLogger configured, the client's default logger
\* writes error messages to standard error and never writes anything to
\* standard output: debug and informational messages, those forwarded from
\* the HTTP retry layer on each request included, are discarded.
C21_DefaultLoggerErrorsOnly ==
    (client # NilPtr /\ config.LeveledLogger = NilLogger)
        => /\ stdout = <<>>
           /\ \A i \in 1..Len(stderr) : stderr[i] = "[ERROR]"
           /\ (Done /\ requests > 0 /\ result.err = ErrInternal) => stderr # <<>>

\* C22: a Logger configured with Level = LevelNull disables logging: nothing
\* is written to standard output or standard error during any sequence of
\* client operations.
C22_LevelNullIsSilent ==
    (client # NilPtr /\ config.LeveledLogger = Logger(LevelNull))
        => /\ stdout = <<>>
           /\ stderr = <<>>

\* the path of the endpoint of an operation
C23_Path(op) ==
    CASE op = "Authenticate" -> "authentication"
      [] op = "Check" -> "check"
      [] op = "Retry" -> "retry"

\* C23: every request attempt of every operation, first attempt and retries
\* alike, is an HTTP POST to baseURL + "/" + the operation's own path,
\* carries the header x-api-key equal to the configured API key and
\* content-type application/json, and carries in customer_uuid the customer
\* UUID given at client construction.
C23_RequestShape ==
    (requests > 0)
        => /\ req # NoRequest
           /\ req.method = "POST"
           /\ req.url = "https://api.ding.live/v1/" \o C23_Path(call.op)
           /\ req.apiKeyHeader = config.APIKey
           /\ req.contentType = "application/json"
           /\ req.payload.CustomerUUID = config.CustomerUUID

\* C23 witness: the third attempt of Retry, with the key and the customer
\* UUID of the configuration, is in flight
C23_Witness ==
    /\ pc = "sending"
    /\ call.op = "Retry"
    /\ attempt = 2
    /\ requests = 3
    /\ req.url = "https://api.ding.live/v1/retry"
    /\ req.apiKeyHeader = "valid_api_key"
    /\ req.payload.CustomerUUID = "f0b399ce-eead-4781-bab5-f63240e81a52"

\* the five pointer fields of the options and their keys in the body
C24_Sent(field, key) ==
    IF field.set THEN key = JString(field.v) ELSE key = Omitted

\* ip, device_id, device_type, app_version and callback_url are left out of
\* the body when the caller left them nil and carry the caller's value
\* otherwise
C24_PointerFields ==
    (call.op = "Authenticate" /\ requests > 0)
        => /\ C24_Sent(call.opt.IP, req.body.ip)
           /\ C24_Sent(call.opt.DeviceID, req.body.device_id)
           /\ C24_Sent(call.opt.DeviceType, req.body.device_type)
           /\ C24_Sent(call.opt.AppVersion, req.body.app_version)
           /\ C24_Sent(call.opt.CallbackURL, req.body.callback_url)

\* C24: each optional field of the Authenticate request (ip, device_id,
\* device_type, app_version, callback_url, is_returning_user) is omitted
\* from the serialized request body when the caller left it unset, and is
\* never sent as a default-value placeholder; when the caller set it, the
\* body carries exactly the caller's value.
C24_OptionalFieldsOmittedWhenUnset ==
    /\ C24_PointerFields
    /\ (call.op = "Authenticate" /\ requests > 0)
          => req.body.is_returning_user
                = IF call.opt.IsReturningUser THEN JBool(TRUE) ELSE Omitted

\* the members of the status enumeration of an operation's result
C26_Members(op) ==
    CASE op = "Authenticate" ->
            { "pending", "rate_limited", "spam_detected", "approved", "canceled",
              "expired", "unknown" }
      [] op = "Check" ->
            { "valid", "invalid", "without_attempt", "rate_limited",
              "already_validated", "expired_auth", "unknown" }
      [] op = "Retry" ->
            { "approved", "denied", "no_attempt", "rate_limited",
              "expired_auth", "already_validated", "unknown" }

\* C26: every status value contained in a result that an operation returns
\* with a nil error is a member of its closed enumeration, one of the
\* recognized states or the enumeration's unknown member; this holds for
\* every 200 body that decodes, bodies where the status field is missing,
\* null or the empty string included.
C26_StatusIsMember ==
    (Done /\ result.err = Nil)
        => result.res.Status \in C26_Members(call.op)


\* a 200 body whose status field is null or the empty string gives the
\* unknown member
C26_NullAndEmptyAreUnknown ==
    (/\ Responded /\ resp.StatusCode = 200
     /\ resp.Body \in { Body(AuthSuccessBody(st)) : st \in {JNull, JString("")} }
                        \cup { Body(CheckSuccessBody(st)) : st \in {JNull, JString("")} }
                        \cup { Body(RetrySuccessBody(st)) : st \in {JNull, JString("")} })
        => result.err = Nil /\ result.res.Status = "unknown"

\* a 200 body without a status field has been decoded for Check
C26_MissingStatus ==
    /\ Responded /\ resp.StatusCode = 200 /\ call.op = "Check"
    /\ resp.Body = Body(Object(<<>>))
    /\ result.err = Nil
    /\ result.res.Status = ""


\* the return of an API-layer function has one of the two shapes: no
\* response and an error, or a response holding exactly one of Error and
\* Success and no error
C27_APIReturnShape(a) ==
    \/ a.res = NilPtr /\ a.err # Nil
    \/ /\ a.res # NilPtr
       /\ a.err = Nil
       /\ (a.res.Error = NoError) # (a.res.Success = NoSuccess)

\* C27: each of the API-layer functions Authentication, Check and Retry
\* returns either (nil response, non-nil error) or (response, nil error)
\* where exactly one of response.Error and response.Success is non-nil;
\* hence the facade reads Success only when it is non-nil, and each public
\* operation returns exactly one of a non-nil result and a non-nil error.
C27_ExactlyOneOutcome ==
    Done =>
        /\ (requests > 0) => C27_APIReturnShape(apiRet)
        /\ (result.res # NilPtr) <=> (result.err = Nil)
        /\ (requests > 0 /\ result.err = Nil) => apiRet.res.Success # NoSuccess

\* C27 witness: Check has returned the error of a decoded error payload and
\* no result
C27_Witness ==
    /\ Done
    /\ call.op = "Check"
    /\ resp.StatusCode = 400
    /\ apiRet.res # NilPtr
    /\ apiRet.res.Error # NoError
    /\ apiRet.res.Success = NoSuccess
    /\ result.res = NilPtr
    /\ result.err = ErrNegativeBalance


\* the validation error of the call's input, from the parsers' verdicts: the
\* phone number first, then the callback URL; the authentication UUID for
\* Check and Retry
C28_ValidationError ==
    CASE call.op = "Authenticate" ->
            IF ~PhoneNumberIsValid(call.opt.PhoneNumber) THEN ErrInvalidPhoneNumber
            ELSE IF call.opt.CallbackURL.set
                    /\ urlParseRequestURI(call.opt.CallbackURL.v) # Nil
                 THEN ErrInvalidCallbackURL
            ELSE Nil
      [] call.op \in {"Check", "Retry"} ->
            IF uuidParse(call.authUUID) # Nil THEN ErrInvalidAuthUUID ELSE Nil
      [] OTHER -> Nil

C29_Received(codes) ==
    resp.kind = "response" /\ resp.StatusCode \in codes /\ ctx = Nil

\* C29: a 403 response is terminal: it is never retried, so an operation
\* whose first response is 403 issues exactly one request and returns
\* ErrUnauthorized, whatever the configured maximum retry count is;
\* likewise a 400 or 404 response with an error payload ends the operation
\* after exactly one request.
C29_ForbiddenIsTerminal ==
    /\ C29_Received({403})
          => /\ Done
             /\ requests = attempt + 1
             /\ (attempt = 0) => requests = 1
             /\ result = [res |-> NilPtr, err |-> ErrUnauthorized]
    /\ (C29_Received({400, 404}) /\ resp.Body.doc \in ErrorDocs)
          => /\ Done
             /\ requests = attempt + 1
             /\ (attempt = 0) => requests = 1
             /\ result.res = NilPtr
             /\ result.err # Nil
    /\ (pc = "backoff" /\ resp.kind = "response")
          => resp.StatusCode \notin {400, 403, 404}

\* C29 witness: on a client configured with two retries the first response
\* was 403 and the operation has returned ErrUnauthorized after one request
C29_Witness ==
    /\ Done
    /\ config.MaxNetworkRetries = IntPtr(2)
    /\ client.api.RetryMax = 2
    /\ C29_Received({403})
    /\ attempt = 0
    /\ requests = 1
    /\ result.err = ErrUnauthorized


\* the request an operation builds from its own arguments
C25_OwnRequest(c) ==
    CASE c.op = "Authenticate" ->
            postRequest(client.api, "authentication", AuthRequest(client, c.opt))
      [] c.op = "Check" ->
            postRequest(client.api, "check", CheckRequest(client, c.authUUID, c.code))
      [] c.op = "Retry" ->
            postRequest(client.api, "retry", RetryRequest(client, c.authUUID))

\* the error the validation of an operation's own arguments gives
C25_OwnValidation(c) ==
    IF c.op = "Authenticate" THEN authenticateValidate(c.opt)
    ELSE authUUIDValidate(c.authUUID)

\* what the operation returns when it runs alone, with the given arguments,
\* and the transport ends on the given outcome under the given context
C25_Alone(c, o, ctxErr) ==
    facadeReturn(c.op,
                 apiCall(c.op, post(doReturn(o, DefaultRetryPolicy(ctxErr, o)))))

\* a call is bound to its own arguments, its own request and its own
\* responses
C25_OwnOutcome(l) ==
    /\ (l.pc # "idle" /\ l.requests = 0)
          => /\ l.pc = "done"
             /\ l.req = NoRequest
             /\ C25_OwnValidation(l.call) # Nil
             /\ l.result = [res |-> NilPtr, err |-> C25_OwnValidation(l.call)]
    /\ (l.requests > 0)
          => /\ C25_OwnValidation(l.call) = Nil
             /\ l.req = C25_OwnRequest(l.call)
             /\ l.requests <= l.attempt + 1
             /\ (l.ctx = Nil) => l.requests = l.attempt + 1
             /\ l.attempt <= client.api.RetryMax
    /\ (l.pc = "done" /\ l.requests > 0)
          => l.result = C25_Alone(l.call, l.resp, l.ctx)
    /\ (l.pc \in {"sending", "backoff"}) => l.result = NoResult

\* while the other call waits in a backoff or for a response, the goroutine
\* that runs can begin any operation, receive its response and return
C25_NotBlocked ==
    (client # NilPtr /\ other.pc \in {"backoff", "sending"})
        => /\ (pc = "idle")
                => /\ ENABLED AuthenticateWithContext(Options("+14155552671", NilString))
                   /\ ENABLED CheckWithContext("f0b399ce-eead-4781-bab5-f63240e81a52", "3588")
                   /\ ENABLED RetryWithContext("f0b399ce-eead-4781-bab5-f63240e81a52")
           /\ (pc = "sending" /\ ctx = Nil)
                => ENABLED RoundTrip(Response(403, Body(GatewayErrorMessage)))
           /\ (pc = "done") => ENABLED Return

\* C25: concurrent calls on the same client are independent: in every
\* interleaving of Authenticate, Check and Retry calls on one client, each
\* call's outcome is the one it would have had running alone against the
\* same server responses; no operation writes any field of the client, and
\* a retry backoff wait of one call never delays or blocks another call.
C25_ConcurrentCallsIndependent ==
    /\ [](C25_OwnOutcome(Running) /\ C25_OwnOutcome(other))
    /\ [](C25_NotBlocked)
    /\ [][client # NilPtr => (client' = client /\ config' = config)]_vars

\* C25 witness: one call waits in the backoff after a 503 while another
\* call, begun after it, has returned the result of its own 200 response
C25_Witness ==
    /\ other.pc = "backoff"
    /\ other.call.op = "Retry"
    /\ other.resp.StatusCode = 503
    /\ pc = "done"
    /\ call.op = "Check"
    /\ resp = Response(200, Body(CheckSuccessBody(JString("valid"))))
    /\ result.err = Nil
    /\ result.res.Status = "valid"

=============================================================================
